---- MODULE Spec2Model ----
(***************************************************************************)
(* A model of dash_wiid_app/app.py: the submissions store (a CSV file that *)
(* is loaded, changed in memory and written back whole), the first-run     *)
(* seeding, the Dash callbacks that read and write it, and the loader of   *)
(* the reference (WIID) dataset.                                           *)
(*                                                                         *)
(* Cells are strings.  A CSV file holds text: an empty cell is "".  A      *)
(* DataFrame cell is text or NaN (the missing value read_csv gives for an  *)
(* empty cell).  Python's None (an empty Dash input) is None.  The string  *)
(* methods (upper, lower, strip) and the datetime conversions are tables   *)
(* over the strings the model uses.  A number is the text of its value     *)
(* (7 and 7.0 are one value, "7"); the text "007" is not a number until    *)
(* read_csv parses it.                                                     *)
(***************************************************************************)
EXTENDS Integers, Sequences, FiniteSets, TLC

\* ------------------------------------------------------------------ bounds
\* The largest number of rows Submit lets the submissions table grow to.
MaxRows == 2

\* ------------------------------------------------------------------ values
NaN == "<NaN>"
None == "<None>"
\* pd.NaT, as a datetime value (datetime values are seconds after
\* 2024-01-01T10:00:00Z).
NaT == -1

Range(s) == {s[i] : i \in 1..Len(s)}

\* Python truthiness of a callback argument: None and "" are falsy.
truthy(v) == v # None /\ v # ""

\* `v or d`
py_or(v, d) == IF truthy(v) THEN v ELSE d

\* str.strip
str_strip(s) ==
    CASE s = " arg " -> "arg"
      [] s = " T1 " -> "T1"
      [] s = " s1 " -> "s1"
      [] s = " " -> ""
      [] OTHER -> s

\* str.upper
str_upper(s) ==
    CASE s = "arg" -> "ARG"
      [] s = " arg " -> " ARG "
      [] s = "bra" -> "BRA"
      [] s = "nan" -> "NAN"
      [] OTHER -> s

\* str.lower
str_lower(s) ==
    CASE s = "Approved" -> "approved"
      [] s = "PENDING" -> "pending"
      [] s = "Flagged" -> "flagged"
      [] OTHER -> s

\* ------------------------------------------------------------------ time
\* The instants datetime.utcnow() returns in the model.
Clock == {5, 70}

\* strftime("%Y-%m-%dT%H:%M:%SZ")
strftime_iso(t) ==
    CASE t = 5 -> "2024-01-01T10:00:05Z"
      [] t = 70 -> "2024-01-01T10:01:10Z"

\* Series.dt.strftime("%Y-%m-%d %H:%M"): the seconds are dropped; NaT gives NaN.
strftime_minute(t) ==
    CASE t = NaT -> NaN
      [] t \div 60 = 0 -> "2024-01-01 10:00"
      [] t \div 60 = 1 -> "2024-01-01 10:01"

\* The format pandas guesses for a timestamp string.
guess_datetime_format(s) ==
    CASE s \in {"2024-01-01T10:00:05Z", "2024-01-01T10:01:10Z"} -> "%Y-%m-%dT%H:%M:%S%z"
      [] s \in {"2024-01-01 10:00", "2024-01-01 10:01"} -> "%Y-%m-%d %H:%M"
      [] OTHER -> "none"

\* The instant a timestamp string denotes.
parse_datetime(s) ==
    CASE s = "2024-01-01T10:00:05Z" -> 5
      [] s = "2024-01-01T10:01:10Z" -> 70
      [] s = "2024-01-01 10:00" -> 0
      [] s = "2024-01-01 10:01" -> 60
      [] OTHER -> NaT

is_null(v) == v = NaN \/ v = ""

\* pd.to_datetime(column, errors="coerce") (pandas 2): the format is guessed
\* from the first non-null element; an element that does not match it, and
\* every null element, becomes NaT.
to_datetime(col) ==
    LET nonnull == {i \in 1..Len(col) : ~is_null(col[i])}
        first == IF nonnull = {} THEN 0
                 ELSE CHOOSE i \in nonnull : \A j \in nonnull : i <= j
        fmt == IF first = 0 THEN "none" ELSE guess_datetime_format(col[first])
    IN [i \in 1..Len(col) |->
          IF is_null(col[i]) \/ guess_datetime_format(col[i]) # fmt
          THEN NaT ELSE parse_datetime(col[i])]

\* The row orders sort_values(ascending=False) can give for the keys `ts`:
\* sequences of positions, the non-NaT keys first and descending (the default
\* quicksort does not fix the order of equal keys), the NaT keys last in
\* their original order (na_position="last").
sort_values_desc(ts) ==
    LET n == Len(ts)
        ok(p) ==
            /\ \A i, j \in 1..n : i # j => p[i] # p[j]
            /\ \A i, j \in 1..n : i < j =>
                 \/ ts[p[j]] = NaT /\ (ts[p[i]] # NaT \/ p[i] < p[j])
                 \/ ts[p[i]] # NaT /\ ts[p[j]] # NaT /\ ts[p[i]] >= ts[p[j]]
    IN {p \in [1..n -> 1..n] : ok(p)}

\* ------------------------------------------------------------------ store
SUB_COLS == <<"timestamp", "student_id", "country_iso3", "title",
              "summary_md", "evidence_links", "rating", "status">>

SubColSet == Range(SUB_COLS)

\* A path with no file.
NoFile == [exists |-> FALSE, cols |-> <<>>, rows |-> <<>>]

\* A file of zero bytes.
ZeroBytes == [exists |-> TRUE, cols |-> <<>>, rows |-> <<>>]

\* pd.read_csv of one cell: an empty cell is missing.
read_cell(text) == IF text = "" THEN NaN ELSE text

\* to_csv of one cell: a missing value is written as an empty cell.
write_cell(v) == IF v = NaN THEN "" ELSE v

\* Whether column c of the frame rows was inferred float64 by read_csv: it
\* has rows and every cell is missing.
is_float64(rows, c) == rows # <<>> /\ \A i \in 1..Len(rows) : rows[i][c] = NaN

\* Whether read_csv parses the text as a number.
is_numeric(text) == text \in {"007", "7", "3"}

\* The number a numeric text denotes.
to_number(text) == IF text = "007" THEN "7" ELSE text

\* The dtype inference of read_csv: a column whose cells are all numeric or
\* empty is parsed as numbers.
numeric_column(f, c) ==
    \A i \in 1..Len(f.rows) : f.rows[i][c] = "" \/ is_numeric(f.rows[i][c])

\* pd.read_csv(SUBS_PATH): the frame a file with a header parses to.
read_csv(f) ==
    [columns |-> f.cols,
     rows |-> [i \in 1..Len(f.rows) |->
                 [c \in Range(f.cols) |->
                    IF numeric_column(f, c) THEN to_number(read_cell(f.rows[i][c]))
                    ELSE read_cell(f.rows[i][c])]]]

\* Lines 84-86: every column of SUB_COLS the frame lacks is added, filled
\* with the empty string, after the columns the frame has.
backfill(df) ==
    LET absent == SelectSeq(SUB_COLS, LAMBDA c : c \notin Range(df.columns))
        cols == df.columns \o absent
    IN [columns |-> cols,
        rows |-> [i \in 1..Len(df.rows) |->
                    [c \in Range(cols) |->
                       IF c \in Range(df.columns) THEN df.rows[i][c] ELSE ""]]]

\* Line 87: df[SUB_COLS].
select_sub_cols(df) ==
    [columns |-> SUB_COLS,
     rows |-> [i \in 1..Len(df.rows) |-> [c \in SubColSet |-> df.rows[i][c]]]]

\* Line 88 without str.lower().
normalize_status_not_lowered(v) == IF v = NaN THEN "" ELSE v

\* Line 88, for one cell: fillna("") and then str.lower().
normalize_status(v) == str_lower(IF v = NaN THEN "" ELSE v)

\* load_subs().  raised: read_csv raises EmptyDataError on a file without a
\* header line.
load_subs(f) ==
    IF ~f.exists
    THEN [raised |-> FALSE, columns |-> SUB_COLS, rows |-> <<>>]
    ELSE IF f.cols = <<>>
    THEN [raised |-> TRUE, columns |-> <<>>, rows |-> <<>>]
    ELSE LET df == select_sub_cols(backfill(read_csv(f)))
         IN [raised |-> FALSE,
             columns |-> df.columns,
             rows |-> [i \in 1..Len(df.rows) |->
                         [df.rows[i] EXCEPT !["status"] = normalize_status(@)]]]

\* df.to_csv(SUBS_PATH, index=False) of a frame reindexed to SUB_COLS, when
\* the write succeeds.
to_csv(rows) ==
    [exists |-> TRUE,
     cols |-> SUB_COLS,
     rows |-> [i \in 1..Len(rows) |->
                 [c \in SubColSet |->
                    IF c \in DOMAIN rows[i] THEN write_cell(rows[i][c]) ELSE ""]]]

\* What a write of `lines` lines can do: succeed, fail before the file is
\* opened (it is left as it was), or fail after the open truncated it, with
\* only the first k lines written (the model takes none, and all but the
\* last).
IoOutcomes(lines) ==
    {[kind |-> "ok", k |-> lines], [kind |-> "denied", k |-> 0]}
    \cup {[kind |-> "partial", k |-> k] : k \in {0, lines - 1}}

\* The file a write of `whole` leaves when it fails after k lines: the
\* header is the first line.
truncated(whole, k) ==
    IF k = 0 THEN ZeroBytes
    ELSE [whole EXCEPT !.rows = SubSeq(whole.rows, 1, k - 1)]

Alert(msg, color) == [msg |-> msg, color |-> color]

\* A callback that returns "".
NoOutput == Alert("", "")

\* save_subs(df): the result (ok, msg) and the file it leaves.
save_subs(read_only, rows, f, io) ==
    IF read_only
    THEN [ok |-> FALSE, msg |-> "Read-only mode: saving disabled.", file |-> f]
    ELSE CASE io.kind = "ok" ->
                [ok |-> TRUE, msg |-> "Saved to student_submissions.csv",
                 file |-> to_csv(rows)]
           [] io.kind = "denied" ->
                [ok |-> FALSE, msg |-> "Error saving", file |-> f]
           [] io.kind = "partial" ->
                [ok |-> FALSE, msg |-> "Error saving",
                 file |-> truncated(to_csv(rows), io.k)]

\* Lines 30-38 without the test that the writable file is missing.
seed_submissions_unguarded(f, seed, io) ==
    IF seed.exists
    THEN CASE io.kind = "ok" -> seed
           [] io.kind = "denied" -> f
           [] io.kind = "partial" -> ZeroBytes
    ELSE f

\* Lines 30-38: the seeding step of a process start.  The seed is copied when
\* the writable file does not exist and the seed does; a copy that fails
\* leaves no file or an empty one.
seed_submissions(f, seed, io) ==
    IF ~f.exists /\ seed.exists
    THEN CASE io.kind = "ok" -> seed
           [] io.kind = "denied" -> f
           [] io.kind = "partial" -> ZeroBytes
    ELSE f


\* ------------------------------------------------------------------ callbacks
\* Lines 385-393: the labels of the required inputs that are falsy, joined.
missing_msg(form) ==
    LET i == ~truthy(form.iso3)
        t == ~truthy(form.title)
        m == ~truthy(form.summary)
    IN CASE i /\ t /\ m -> "Missing: Country ISO-3, Title, Summary"
         [] i /\ t /\ ~m -> "Missing: Country ISO-3, Title"
         [] i /\ ~t /\ m -> "Missing: Country ISO-3, Summary"
         [] i /\ ~t /\ ~m -> "Missing: Country ISO-3"
         [] ~i /\ t /\ m -> "Missing: Title, Summary"
         [] ~i /\ t /\ ~m -> "Missing: Title"
         [] ~i /\ ~t /\ m -> "Missing: Summary"
         [] OTHER -> ""

\* Lines 396-406: the row submit builds from its inputs.
make_entry(form, now) ==
    [timestamp |-> strftime_iso(now),
     student_id |-> str_strip(py_or(form.student_id, "")),
     country_iso3 |-> str_upper(str_strip(py_or(form.iso3, ""))),
     title |-> str_strip(py_or(form.title, "")),
     summary_md |-> py_or(form.summary, ""),
     evidence_links |-> py_or(form.links, ""),
     rating |-> IF form.rating # None THEN form.rating ELSE "",
     status |-> str_lower(py_or(form.status, "pending"))]

\* submit(n, ...): the Alert it returns and the file it leaves.  raised: the
\* callback ends in an exception of load_subs and returns nothing.
submit(read_only, n, form, now, f, io) ==
    IF n = 0 THEN [raised |-> FALSE, out |-> NoOutput, file |-> f]
    ELSE IF read_only
    THEN [raised |-> FALSE, file |-> f,
          out |-> Alert("Read-only mode: submission disabled.", "secondary")]
    ELSE IF missing_msg(form) # ""
    THEN [raised |-> FALSE, out |-> Alert(missing_msg(form), "warning"), file |-> f]
    ELSE LET subs == load_subs(f) IN
         IF subs.raised THEN [raised |-> TRUE, out |-> NoOutput, file |-> f]
         ELSE LET r == save_subs(read_only,
                                 Append(subs.rows, make_entry(form, now)), f, io)
              IN [raised |-> FALSE, file |-> r.file,
                  out |-> Alert(r.msg, IF r.ok THEN "success" ELSE "danger")]

\* admin_reload(tab, _): the values it can return for the admin table's data.
\* updated = FALSE: no_update, or the callback ends in an exception of
\* load_subs.
admin_reload(tab, f) ==
    IF tab # "tab-admin" THEN {[updated |-> FALSE, rows |-> <<>>]}
    ELSE LET subs == load_subs(f) IN
         IF subs.raised THEN {[updated |-> FALSE, rows |-> <<>>]}
         ELSE IF subs.rows = <<>> THEN {[updated |-> TRUE, rows |-> <<>>]}
         ELSE LET ts == to_datetime([i \in 1..Len(subs.rows) |->
                                       subs.rows[i]["timestamp"]])
              IN {[updated |-> TRUE,
                   rows |-> [i \in 1..Len(subs.rows) |->
                               [subs.rows[p[i]] EXCEPT
                                  !["timestamp"] = strftime_minute(ts[p[i]])]]]
                  : p \in sort_values_desc(ts)}

\* admin_save(n, rows): the Alert it returns and the file it leaves.  table is
\* the admin table's data: loaded = FALSE is None.
admin_save(read_only, n, table, f, io) ==
    IF n = 0 THEN [out |-> NoOutput, file |-> f]
    ELSE IF read_only
    THEN [out |-> Alert("Read-only mode: saving disabled.", "secondary"), file |-> f]
    ELSE IF ~table.loaded
    THEN [out |-> Alert("No rows to save.", "warning"), file |-> f]
    ELSE LET r == save_subs(read_only, table.rows, f, io)
         IN [out |-> Alert(r.msg, IF r.ok THEN "success" ELSE "danger"),
             file |-> r.file]

\* Lines 286-287: submitted_iso, the distinct values of
\* subs["country_iso3"].dropna().str.upper() in order of first appearance.
\* raised: the .str accessor raises AttributeError on a float64 column.
submitted_iso(subs) ==
    IF is_float64(subs.rows, "country_iso3")
    THEN [raised |-> TRUE, locations |-> <<>>]
    ELSE LET col == [i \in 1..Len(subs.rows) |-> subs.rows[i]["country_iso3"]]
             kept == SelectSeq(col, LAMBDA v : v # NaN)
             up == [i \in 1..Len(kept) |-> str_upper(kept[i])]
             firsts == {i \in 1..Len(up) : \A j \in 1..(i - 1) : up[j] # up[i]}
             pick[i \in 0..Len(up)] ==
                 IF i = 0 THEN <<>>
                 ELSE IF i \in firsts THEN Append(pick[i - 1], up[i])
                 ELSE pick[i - 1]
         IN [raised |-> FALSE, locations |-> pick[Len(up)]]

\* Lines 308-326: the rows of the clicked country, newest first (recent, at
\* most 12), and the featured row.  Rows are named by their position in subs;
\* featured = 0 is None.
country_notes(subs, iso3) ==
    LET n == Len(subs.rows)
        idx == {i \in 1..n : subs.rows[i]["country_iso3"] = iso3}
        pos[k \in 0..n] ==
            IF k = 0 THEN <<>>
            ELSE IF k \in idx THEN Append(pos[k - 1], k) ELSE pos[k - 1]
        sub_iso == pos[n]
        ts == to_datetime([k \in 1..Len(sub_iso) |->
                             subs.rows[sub_iso[k]]["timestamp"]])
        appr == SelectSeq([k \in 1..Len(sub_iso) |-> k],
                          LAMBDA k : subs.rows[sub_iso[k]]["status"] = "approved")
        appr_ts == [k \in 1..Len(appr) |-> ts[appr[k]]]
    IN {[recent |-> [k \in 1..(IF Len(sub_iso) < 12 THEN Len(sub_iso) ELSE 12)
                       |-> sub_iso[p[k]]],
         featured |-> IF appr = <<>> THEN 0 ELSE sub_iso[appr[q[1]]]]
        : p \in sort_values_desc(ts), q \in sort_values_desc(appr_ts)}

\* update_panel(clickData, _): the outputs it can return.  click = None: no
\* clickData.  raised: the callback ends in an exception and returns nothing.
update_panel(click, f) ==
    LET subs == load_subs(f)
        failed == {[raised |-> TRUE,
                    panel |-> [click |-> click, overlay |-> <<>>,
                               featured |-> 0, recent |-> <<>>]]}
    IN IF subs.raised THEN failed
       ELSE LET o == submitted_iso(subs) IN
            IF o.raised THEN failed
            ELSE IF ~truthy(click)
            THEN {[raised |-> FALSE,
                   panel |-> [click |-> click, overlay |-> o.locations,
                              featured |-> 0, recent |-> <<>>]]}
            ELSE {[raised |-> FALSE,
                   panel |-> [click |-> click, overlay |-> o.locations,
                              featured |-> c.featured, recent |-> c.recent]]
                  : c \in country_notes(subs, click)}

\* ------------------------------------------------------------------ reference dataset
EXPECTED_COLS == <<"country", "c3", "year", "gini", "resource",
                   "scale_detailed", "incomegroup", "region_wb">>

\* Line 54, for one header: c.strip().lower().
normalize_header(c) ==
    CASE c = " Gini " -> "gini"
      [] c = "C3" -> "c3"
      [] OTHER -> c

\* pd.to_numeric(errors="coerce"), for one cell: the number, or NaN.
to_numeric(text) ==
    IF text \in {"2019", "2019.5", "41.2"} THEN text ELSE NaN

\* Whether astype("Int64") accepts the value: NaN and whole numbers.
int64_safe(v) == v \in {NaN, "2019"}

\* Line 63, for one cell: astype(str) turns a missing value into the string
\* "nan", and str.upper() follows.
c3_coerce(v) == str_upper(IF v = NaN THEN "nan" ELSE v)

\* load_wiid_latest(path) of a parsed file: cols is the header line and every
\* row a sequence of cells under it.  raised: ValueError for missing columns,
\* TypeError of astype("Int64") for a year that is not whole.
load_wiid_latest(f) ==
    LET columns == [k \in 1..Len(f.cols) |-> normalize_header(f.cols[k])]
        missing == SelectSeq(EXPECTED_COLS, LAMBDA c : c \notin Range(columns))
        at(c) == CHOOSE k \in 1..Len(columns) : columns[k] = c
        df == [i \in 1..Len(f.rows) |->
                 [c \in Range(EXPECTED_COLS) |->
                    CASE c = "c3" -> c3_coerce(read_cell(f.rows[i][at(c)]))
                      [] c = "year" -> to_numeric(f.rows[i][at(c)])
                      [] c = "gini" -> to_numeric(f.rows[i][at(c)])
                      [] OTHER -> read_cell(f.rows[i][at(c)])]]
        usable == SelectSeq(df, LAMBDA r : r["c3"] # NaN /\ r["year"] # NaN
                                           /\ r["gini"] # NaN)
    IN IF missing # <<>>
       THEN [loaded |-> TRUE, raised |-> TRUE, missing |-> missing, rows |-> <<>>]
       ELSE IF \E i \in 1..Len(df) : ~int64_safe(df[i]["year"])
       THEN [loaded |-> TRUE, raised |-> TRUE, missing |-> <<>>, rows |-> <<>>]
       ELSE [loaded |-> TRUE, raised |-> FALSE, missing |-> <<>>, rows |-> usable]

\* Before line 70 has run.
NotLoaded == [loaded |-> FALSE, raised |-> FALSE, missing |-> <<>>, rows |-> <<>>]


\* ------------------------------------------------------------------ inputs
\* The values of the submission form's inputs the model submits.
Forms ==
    {[student_id |-> " s1 ", iso3 |-> " arg ", title |-> " T1 ", summary |-> "md",
      links |-> None, rating |-> None, status |-> "approved"],
     [student_id |-> "007", iso3 |-> " ", title |-> "T2", summary |-> "md",
      links |-> "http://x", rating |-> "3", status |-> None],
     [student_id |-> None, iso3 |-> None, title |-> "", summary |-> "md",
      links |-> None, rating |-> None, status |-> "pending"]}

\* A submissions file of an older schema: columns missing, one the app does
\* not know, another order.
LegacyFile ==
    [exists |-> TRUE,
     cols |-> <<"title", "grade", "timestamp", "summary_md", "status">>,
     rows |-> <<[title |-> "T0", grade |-> "A",
                 timestamp |-> "2024-01-01T10:00:05Z",
                 summary_md |-> "md", status |-> "Approved"]>>]

\* A submissions file of the current schema, edited by hand.
CanonFile ==
    [exists |-> TRUE,
     cols |-> SUB_COLS,
     rows |-> <<[timestamp |-> "2024-01-01T10:00:05Z", student_id |-> "s0",
                 country_iso3 |-> "bra", title |-> "T0", summary_md |-> "md",
                 evidence_links |-> "", rating |-> "", status |-> "Flagged"]>>]

\* The files the writable path can hold at the first start, and the files
\* the bundled seed path can hold.
DiskFiles == {NoFile, LegacyFile}

SeedFiles == {NoFile, CanonFile}

\* The reference dataset the application runs with.
GoodWiid ==
    [cols |-> EXPECTED_COLS,
     rows |-> <<<<"Argentina", "ARG", "2019", "41.2", "x", "x", "x", "x">>,
                <<"Brazil", "BRA", "2019", "41.2", "x", "x", "x", "x">>>>]

\* The values of the tabs component admin_reload is called with.
Tabs == {"tab-map", "tab-admin"}

\* ------------------------------------------------------------------ state
VARIABLES
    APP_READONLY,   \* the environment variable APP_READONLY
    repo_subs,      \* the file at REPO_SUBS, the bundled seed
    subs_path,      \* the file at SUBS_PATH, the writable submissions file
    admin_table,    \* the data of the admin table (loaded = FALSE: None)
    returned,       \* what the last callback returned
    wiid_csv,       \* the file at WIID_PATH
    latest          \* the module-level reference table

vars == <<APP_READONLY, repo_subs, subs_path, admin_table, returned,
          wiid_csv, latest>>

\* Line 25 with the flag compared with another spelling of true.
READ_ONLY_other_spelling == APP_READONLY = "true"

\* Line 25.
READ_ONLY == APP_READONLY = "1"

\* The countries of the map, which a click selects.
MapLocations == {latest.rows[i]["c3"] : i \in 1..Len(latest.rows)}

NoPanel == [click |-> None, overlay |-> <<>>, featured |-> 0, recent |-> <<>>]

\* The return of a callback: the Alert of submit and admin_save, the outputs
\* of update_panel.  raised: it ended in an exception instead.
Return(callback, raised, alert, panel) ==
    [callback |-> callback, raised |-> raised, alert |-> alert, panel |-> panel]

NoReturn == Return("", FALSE, NoOutput, NoPanel)

\* The process has started once: the seeding step has run on the files the
\* disk held, the reference table is loaded, no callback has returned.
Init ==
    /\ APP_READONLY \in {"0", "1"}
    /\ repo_subs \in SeedFiles
    /\ \E disk \in DiskFiles, io \in IoOutcomes(1) :
          subs_path = seed_submissions(disk, repo_subs, io)
    /\ admin_table = [loaded |-> FALSE, rows |-> <<>>]
    /\ returned = NoReturn
    /\ wiid_csv = GoodWiid
    /\ latest = load_wiid_latest(GoodWiid)

\* The process restarts: lines 30-38 and 70 run again.
Boot ==
    /\ \E io \in IoOutcomes(1) :
          subs_path' = seed_submissions(subs_path, repo_subs, io)
    /\ latest' = load_wiid_latest(wiid_csv)
    /\ returned' = NoReturn
    /\ UNCHANGED <<APP_READONLY, repo_subs, admin_table, wiid_csv>>

\* One call of submit.
SubmitCall(n, form, now, io) ==
    LET r == submit(READ_ONLY, n, form, now, subs_path, io)
    IN /\ subs_path' = r.file
       /\ returned' = Return("submit", r.raised, r.out, NoPanel)
       /\ UNCHANGED <<APP_READONLY, repo_subs, admin_table, wiid_csv, latest>>

Submit ==
    /\ Len(subs_path.rows) < MaxRows
    /\ \E n \in {0, 1}, form \in Forms, now \in Clock,
          io \in IoOutcomes(Len(subs_path.rows) + 2) :
          SubmitCall(n, form, now, io)

\* One call of admin_reload.
AdminReloadCall(tab) ==
    /\ \E r \in admin_reload(tab, subs_path) :
          /\ admin_table' = IF r.updated THEN [loaded |-> TRUE, rows |-> r.rows]
                            ELSE admin_table
          /\ returned' = Return("admin_reload", ~r.updated /\ tab = "tab-admin",
                                NoOutput, NoPanel)
    /\ UNCHANGED <<APP_READONLY, repo_subs, subs_path, wiid_csv, latest>>

AdminReload == \E tab \in Tabs : AdminReloadCall(tab)

\* One call of admin_save.
AdminSaveCall(n, io) ==
    LET r == admin_save(READ_ONLY, n, admin_table, subs_path, io)
    IN /\ subs_path' = r.file
       /\ returned' = Return("admin_save", FALSE, r.out, NoPanel)
       /\ UNCHANGED <<APP_READONLY, repo_subs, admin_table, wiid_csv, latest>>

AdminSave ==
    \E n \in {0, 1}, io \in IoOutcomes(Len(admin_table.rows) + 1) :
       AdminSaveCall(n, io)

\* One call of update_panel.
UpdatePanelCall(click) ==
    /\ \E r \in update_panel(click, subs_path) :
          returned' = Return("update_panel", r.raised, NoOutput, r.panel)
    /\ UNCHANGED <<APP_READONLY, repo_subs, subs_path, admin_table,
                   wiid_csv, latest>>

UpdatePanel == \E click \in {None} \cup MapLocations : UpdatePanelCall(click)

\* The callbacks that read and write the submissions store.
Next ==
    \/ Boot
    \/ Submit
    \/ AdminReload
    \/ AdminSave

Spec == Init /\ [][Next]_vars

\* The store's callbacks and the map panel's callback.
NextPanel ==
    \/ Boot
    \/ Submit
    \/ AdminReload
    \/ AdminSave
    \/ UpdatePanel

SpecPanel == Init /\ [][NextPanel]_vars


\* A first start on a disk with no submissions file and no seed, writable.
InitFresh ==
    /\ Init
    /\ APP_READONLY = "0"
    /\ ~repo_subs.exists
    /\ ~subs_path.exists

SpecFresh == InitFresh /\ [][NextPanel]_vars

\* ------------------------------------------------------------------ reference dataset, as a machine
\* The largest number of rows of a reference file.
MaxWiidRows == 2

\* The header lines of the reference files: the expected one, one that
\* needs normalizing, one without the column gini.
WiidHeaders ==
    {EXPECTED_COLS,
     <<"country", "C3", "year", " Gini ", "resource",
       "scale_detailed", "incomegroup", "region_wb">>,
     <<"country", "c3", "year", "gini_std", "resource",
       "scale_detailed", "incomegroup", "region_wb">>}

\* The rows of the reference files: c3 present or missing; year whole, not
\* whole, not a number or missing; gini a number, not a number or missing.
WiidRows ==
    {<<"Argentina", c3, year, gini, "x", "x", "x", "x">> :
       c3 \in {"arg", ""}, year \in {"2019", "2019.5", "n/a", ""},
       gini \in {"41.2", "n/a", ""}}

WiidFiles ==
    {[cols |-> h, rows |-> r] :
       h \in WiidHeaders,
       r \in UNION {[1..n -> WiidRows] : n \in 0..MaxWiidRows}}

\* The process is about to run line 70 on some reference file.
InitWiid ==
    /\ APP_READONLY = "0"
    /\ repo_subs = NoFile
    /\ subs_path = NoFile
    /\ admin_table = [loaded |-> FALSE, rows |-> <<>>]
    /\ returned = NoReturn
    /\ wiid_csv \in WiidFiles
    /\ latest = NotLoaded

\* Line 70: latest = load_wiid_latest(WIID_PATH).
LoadWiid ==
    /\ ~latest.loaded
    /\ latest' = load_wiid_latest(wiid_csv)
    /\ UNCHANGED <<APP_READONLY, repo_subs, subs_path, admin_table, returned,
                   wiid_csv>>

SpecWiid == InitWiid /\ [][LoadWiid]_vars

\* ------------------------------------------------------------------ claims
\* The rows load_subs returns for a file (none when it raises).
Loaded(f) == load_subs(f).rows

\* The Alerts that report read-only mode.
ReadOnlyAlerts ==
    {Alert("Read-only mode: submission disabled.", "secondary"),
     Alert("Read-only mode: saving disabled.", "secondary"),
     Alert("Read-only mode: saving disabled.", "danger")}

\* C1: with APP_READONLY=1, every call of submit and of admin_save with a
\* click (n >= 1) returns a read-only failure and leaves the submissions file
\* as it was.
C1_ReadOnlyNeverWrites ==
    [][(/\ APP_READONLY = "1"
        /\ \/ \E form \in Forms, now \in Clock, io \in IoOutcomes(Len(subs_path.rows) + 2) :
                 SubmitCall(1, form, now, io)
           \/ \E io \in IoOutcomes(Len(admin_table.rows) + 1) : AdminSaveCall(1, io))
       => (subs_path' = subs_path /\ returned'.alert \in ReadOnlyAlerts)]_vars

\* C1, witness: in read-only mode a submit was refused while a submissions
\* file exists.
C1_Witness ==
    /\ APP_READONLY = "1"
    /\ subs_path.exists
    /\ returned.callback = "submit"
    /\ returned.alert \in ReadOnlyAlerts

\* C2: the seeding step of a process start leaves an existing writable file
\* unchanged, whatever it holds; it changes the writable path only when no
\* file is there and the seed exists, and then to the seed (or, when the copy
\* fails part-way, to an empty file).
C2_SeedNeverOverwrites ==
    [][(returned' = NoReturn /\ Boot) =>
         IF subs_path.exists THEN subs_path' = subs_path
         ELSE \/ subs_path' = subs_path
              \/ repo_subs.exists /\ subs_path' \in {repo_subs, ZeroBytes}]_vars

\* C2, witness: the process restarted (nothing has returned since) after
\* callbacks ran, with a writable file that holds appended rows and differs
\* from the seed.
C2_Witness ==
    /\ returned = NoReturn
    /\ admin_table.loaded
    /\ repo_subs.exists
    /\ subs_path.exists
    /\ subs_path # repo_subs
    /\ Len(subs_path.rows) >= 2

\* Two cells that hold the same text, or are both empty (missing, or "").
SameCell(a, b) == a = b \/ (is_null(a) /\ is_null(b))

SameRow(r, q) == \A c \in SubColSet : SameCell(r[c], q[c])

\* An input of the form as a cell: nothing entered is an empty cell.
Entered(v) == IF truthy(v) THEN v ELSE ""

\* The writes of a submit that do not fail.
OkWrites(f) == {io \in IoOutcomes(Len(f.rows) + 2) : io.kind = "ok"}

\* C3: after a successful submit, load returns the rows it returned before,
\* in their order, and then the new row, whose fields are the submitted
\* values verbatim, country_iso3 upper-cased and status lower-cased.  Taken
\* here up to the surrounding whitespace of student_id, country_iso3 and
\* title, which submit strips, and with an empty value read back as missing.
C3_AppendVerbatim ==
    [][(returned'.callback = "submit" /\ returned'.alert.color = "success") =>
       \A form \in Forms, now \in Clock, io \in OkWrites(subs_path) :
         SubmitCall(1, form, now, io) =>
           LET before == Loaded(subs_path)
               after == Loaded(subs_path')
               new == after[Len(after)]
           IN /\ Len(after) = Len(before) + 1
              /\ \A i \in 1..Len(before) : SameRow(after[i], before[i])
              /\ new["timestamp"] = strftime_iso(now)
              /\ new["student_id"] = read_cell(str_strip(Entered(form.student_id)))
              /\ new["country_iso3"] = read_cell(str_upper(str_strip(Entered(form.iso3))))
              /\ new["title"] = read_cell(str_strip(Entered(form.title)))
              /\ new["summary_md"] = read_cell(Entered(form.summary))
              /\ new["evidence_links"] = read_cell(Entered(form.links))
              /\ new["rating"] = read_cell(Entered(form.rating))
              /\ new["status"] = str_lower(py_or(form.status, "pending"))]_vars

\* The titles of the rows submit appends.
SubmittedTitles == {str_strip(form.title) : form \in {g \in Forms : missing_msg(g) = ""}}

\* How many rows with title t a sequence of rows holds.
Count(rows, t) == Cardinality({i \in 1..Len(rows) : rows[i]["title"] = t})

\* C4: a row that a submit appended stays in the persisted log through every
\* submit, admin reload and admin save (taken here: through every step whose
\* write, if it writes, does not fail).
C4_NeverDeleted ==
    [][returned'.alert.color # "danger" =>
         \A t \in SubmittedTitles :
            Count(Loaded(subs_path'), t) >= Count(Loaded(subs_path), t)]_vars

\* C5: a save over a file that holds rows, when it fails, is returned as an
\* error Alert and the file still holds what it held before the write.
C5_FailedWriteKeepsFile ==
    [][(returned'.alert = Alert("Error saving", "danger") /\ subs_path.rows # <<>>) =>
         (~returned'.raised /\ subs_path' = subs_path)]_vars

\* The timestamps of the form submit writes, YYYY-MM-DDTHH:MM:SSZ.
IsoTimestamps == {strftime_iso(t) : t \in Clock}

\* C10: every row of the persisted log has a timestamp of the form
\* YYYY-MM-DDTHH:MM:SSZ (every file the model starts from has).
C10_TimestampsStayIso ==
    \A i \in 1..Len(subs_path.rows) :
       "timestamp" \in DOMAIN subs_path.rows[i] =>
          subs_path.rows[i]["timestamp"] \in IsoTimestamps


\* The statuses of the data model.
KnownStatuses == {"pending", "approved", "rejected"}

\* The text of column c in row i of a file: empty when the file has no such
\* column.
FileCell(f, i, c) == IF c \in Range(f.cols) THEN f.rows[i][c] ELSE ""

C6_OverlayExact ==
    (returned.callback = "update_panel" /\ ~load_subs(subs_path).raised) =>
       LET rows == Loaded(subs_path)
           o == returned.panel.overlay
       IN /\ ~returned.raised
          /\ "" \notin Range(o)
          /\ \A i, j \in 1..Len(o) : i # j => o[i] # o[j]
          /\ Range(o) = {str_upper(rows[i]["country_iso3"]) :
                           i \in {k \in 1..Len(rows) : ~is_null(rows[k]["country_iso3"])}}

\* The instant the timestamp of a row denotes; NaT, the oldest, when it
\* denotes none.
TimeOf(row) == parse_datetime(row["timestamp"])

\* C7: when update_panel returns for a clicked country, the featured note is
\* an approved row of that country whose timestamp is the latest among them
\* (compared here to the minute only), and there is none exactly when the
\* country has no approved row.
C7_FeaturedIsLatestApproved ==
    (returned.callback = "update_panel" /\ ~returned.raised
     /\ truthy(returned.panel.click)) =>
       LET rows == Loaded(subs_path)
           approved == {i \in 1..Len(rows) :
                          /\ rows[i]["country_iso3"] = returned.panel.click
                          /\ rows[i]["status"] = "approved"}
           f == returned.panel.featured
       IN /\ f = 0 <=> approved = {}
          /\ f # 0 => /\ f \in approved
                      /\ \A j \in approved :
                            TimeOf(rows[f]) \div 60 >= TimeOf(rows[j]) \div 60


\* A row of a reference file as the claim keeps it: c3 upper-cased.
KeptRow(cells) ==
    [country |-> cells[1], c3 |-> str_upper(cells[2]), year |-> cells[3],
     gini |-> cells[4], resource |-> cells[5], scale_detailed |-> cells[6],
     incomegroup |-> cells[7], region_wb |-> cells[8]]

\* C9: for a reference file with all required headers, load_wiid_latest
\* returns the rows whose c3 is present, whose year is a whole number and
\* whose gini is a number, in the order of the file, and no other row.
C9_DropsExactlyUnusableRows ==
    (latest.loaded /\ ~latest.raised) =>
       LET usable == SelectSeq(wiid_csv.rows,
                               LAMBDA cells : /\ cells[2] # ""
                                              /\ cells[3] = "2019"
                                              /\ cells[4] = "41.2")
       IN latest.rows = [i \in 1..Len(usable) |-> KeptRow(usable[i])]

====
